---- MODULE Spec2Model ----
(***************************************************************************)
(* Model of scripts/query_customs.py: the interactive retrieve-then-        *)
(* analyze workflow over customs declarations, and, in the last part, of    *)
(* scripts/select_input_files.py: the ingestion of input files.             *)
(*                                                                          *)
(* Python str values are TLA+ strings.  The Ukrainian literals of the       *)
(* source are written in a one-character-per-character Latin                *)
(* transliteration, so that every len() of the source is kept.              *)
(* An Optional[str] field is <<>> for None and <<s>> for the string s.      *)
(***************************************************************************)
EXTENDS Integers, Sequences, FiniteSets, TLC

(***************************************************************************)
(* Bounds of the model.                                                     *)
(***************************************************************************)
\* the largest number of hits one search response of the store carries
MaxHits == 2

\* the largest page size k of the retrievers of the paging specification
MaxK == 2

\* the largest number of files the input directory holds
MaxFiles == 2

\* the longest line typed at the prompt of the ingestion script
MaxLineLen == 3

(***************************************************************************)
(* Python values and string helpers.                                        *)
(***************************************************************************)
None == <<>>
Some(s) == <<s>>
IsNone(o) == Len(o) = 0
IsSet(o) == Len(o) = 1
\* Python truthiness of an Optional[str]: None and "" are falsy
Truthy(o) == Len(o) = 1 /\ o[1] # ""

Ch(s, i) == SubSeq(s, i, i)
IsSpace(c) == c \in {" ", "\t", "\n"}

RECURSIVE LStrip(_)
LStrip(s) ==
  IF Len(s) = 0 THEN s
  ELSE IF IsSpace(Ch(s, 1)) THEN LStrip(SubSeq(s, 2, Len(s))) ELSE s

RECURSIVE RStrip(_)
RStrip(s) ==
  IF Len(s) = 0 THEN s
  ELSE IF IsSpace(Ch(s, Len(s))) THEN RStrip(SubSeq(s, 1, Len(s) - 1)) ELSE s

\* a str.strip() that forgets to strip (mutant of Strip)
StripKeepsBlanks(s) == s

\* str.strip()
Strip(s) == RStrip(LStrip(s))

UpperAlphabet == "ABCDEFGHIJKLMNOPQRSTUVWXYZ"
LowerAlphabet == "abcdefghijklmnopqrstuvwxyz"

LowerCh(c) ==
  IF \E i \in 1..26 : Ch(UpperAlphabet, i) = c
  THEN Ch(LowerAlphabet, CHOOSE i \in 1..26 : Ch(UpperAlphabet, i) = c)
  ELSE c

\* str.lower()
RECURSIVE Lower(_)
Lower(s) ==
  IF Len(s) = 0 THEN s
  ELSE LowerCh(Ch(s, 1)) \o Lower(SubSeq(s, 2, Len(s)))

Digit(d) == Ch("0123456789", d + 1)

\* str() of a non-negative int
RECURSIVE IntToStr(_)
IntToStr(n) ==
  IF n < 10 THEN Digit(n) ELSE IntToStr(n \div 10) \o Digit(n % 10)

\* s contains sub as a substring (Python: sub in s)
Contains(s, sub) ==
  \E i \in 1..(Len(s) - Len(sub) + 1) : SubSeq(s, i, i + Len(sub) - 1) = sub

\* "\n".join(parts)
RECURSIVE Join(_)
Join(parts) ==
  IF Len(parts) = 0 THEN ""
  ELSE IF Len(parts) = 1 THEN parts[1]
  ELSE parts[1] \o "\n" \o Join(Tail(parts))

(***************************************************************************)
(* The document store: what one client.search call can do.                  *)
(***************************************************************************)
\* the record of the end-to-end scenario, with every field of the schema
SourceFull ==
  [declaration_number |-> "123", processing_date |-> "2024-01-15",
   customs_office |-> "Kyiv", product_code |-> "8409",
   product_description |-> "Car engine part",
   net_weight |-> 12, gross_weight |-> 15, invoice_value |-> 500,
   unit |-> "kg", quantity |-> 3, origin_country |-> "DE",
   trade_mark |-> "Bosch"]

\* a record of the index that lacks most fields of the schema
SourceSparse ==
  [declaration_number |-> "77", product_description |-> "Tea",
   invoice_value |-> 9]

Hits ==
  { [_source |-> SourceFull, _score |-> 7],
    [_source |-> SourceSparse, _score |-> 2] }

RECURSIVE SeqsUpTo(_, _)
SeqsUpTo(S, n) ==
  IF n = 0 THEN { <<>> }
  ELSE LET shorter == SeqsUpTo(S, n - 1)
       IN  shorter \cup { Append(q, x) : q \in { r \in shorter : Len(r) = n - 1 }, x \in S }

\* exceptions client.search raises
SearchExceptions == { "ConnectionError", "RequestError" }

\* the outcomes of one client.search call
StoreOutcomes ==
  { [kind |-> "hits", hits |-> h, exc |-> ""] : h \in SeqsUpTo(Hits, MaxHits) }
  \cup { [kind |-> "raise", hits |-> <<>>, exc |-> e] : e \in SearchExceptions }

(***************************************************************************)
(* OpenSearchRetriever.get_relevant_documents                               *)
(***************************************************************************)
\* dict.get(key, default)
Get(d, key, default) == IF key \in DOMAIN d THEN d[key] ELSE default

\* a retriever that fills a missing trade mark with the empty string
\* (mutant of HitMetadata)
HitMetadataBlankMark(hit) ==
  LET source == hit._source
  IN  [declaration_number |-> Get(source, "declaration_number", "N/A"),
       processing_date |-> Get(source, "processing_date", "N/A"),
       customs_office |-> Get(source, "customs_office", "N/A"),
       product_code |-> Get(source, "product_code", "N/A"),
       net_weight |-> Get(source, "net_weight", 0),
       gross_weight |-> Get(source, "gross_weight", 0),
       invoice_value |-> Get(source, "invoice_value", 0),
       unit |-> Get(source, "unit", "st"),
       quantity |-> Get(source, "quantity", 0),
       origin_country |-> Get(source, "origin_country", "N/A"),
       trade_mark |-> Get(source, "trade_mark", ""),
       score |-> Get(hit, "_score", 0)]

HitMetadata(hit) ==
  LET source == hit._source
  IN  [declaration_number |-> Get(source, "declaration_number", "N/A"),
       processing_date |-> Get(source, "processing_date", "N/A"),
       customs_office |-> Get(source, "customs_office", "N/A"),
       product_code |-> Get(source, "product_code", "N/A"),
       net_weight |-> Get(source, "net_weight", 0),
       gross_weight |-> Get(source, "gross_weight", 0),
       invoice_value |-> Get(source, "invoice_value", 0),
       unit |-> Get(source, "unit", "st"),
       quantity |-> Get(source, "quantity", 0),
       origin_country |-> Get(source, "origin_country", "N/A"),
       trade_mark |-> Get(source, "trade_mark", "N/A"),
       score |-> Get(hit, "_score", 0)]

Document(hit) ==
  [page_content |-> Get(hit._source, "product_description", ""),
   metadata |-> HitMetadata(hit)]

\* a retriever that treats an empty result as a failure (mutant of
\* get_relevant_documents)
get_relevant_documents_EmptyRaises(outcome) ==
  IF outcome.kind = "raise"
  THEN [raised |-> TRUE, exc |-> outcome.exc, docs |-> <<>>]
  ELSE IF Len(outcome.hits) = 0
  THEN [raised |-> TRUE, exc |-> "ValueError", docs |-> <<>>]
  ELSE IF \E i \in 1..Len(outcome.hits) : "_source" \notin DOMAIN outcome.hits[i]
  THEN [raised |-> TRUE, exc |-> "KeyError", docs |-> <<>>]
  ELSE [raised |-> FALSE, exc |-> "",
        docs |-> [i \in 1..Len(outcome.hits) |-> Document(outcome.hits[i])]]

\* one execution of the body of get_relevant_documents, given what the
\* client.search call of that execution does
get_relevant_documents(outcome) ==
  IF outcome.kind = "raise"
  THEN [raised |-> TRUE, exc |-> outcome.exc, docs |-> <<>>]
  ELSE IF \E i \in 1..Len(outcome.hits) : "_source" \notin DOMAIN outcome.hits[i]
  THEN [raised |-> TRUE, exc |-> "KeyError", docs |-> <<>>]
  ELSE [raised |-> FALSE, exc |-> "",
        docs |-> [i \in 1..Len(outcome.hits) |-> Document(outcome.hits[i])]]

(***************************************************************************)
(* The tenacity policy of get_relevant_documents.                           *)
(***************************************************************************)
\* a policy that gives up one attempt early (mutant of StopAfterAttempt)
StopAfterAttemptEarly == 3 - 1

\* stop=stop_after_attempt(3)
StopAfterAttempt == 3

\* wait_exponential(multiplier=1, min=4, max=10)
WaitMultiplier == 1
WaitMin == 4
WaitMax == 10

Min2(a, b) == IF a < b THEN a ELSE b
Max2(a, b) == IF a > b THEN a ELSE b

\* the sleep after the failed attempt number n
WaitExponential(n) ==
  Max2(Max2(0, WaitMin), Min2(WaitMultiplier * 2 ^ (n - 1), WaitMax))

\* retry= is not given: tenacity retries on every Exception
RetryOn(exc) == TRUE

(***************************************************************************)
(* The search call: client.search(index, body, size=self.k).                *)
(***************************************************************************)
\* k: int = 10, the page size of a retriever built without k
DefaultK == 10

\* the store's search: of the matching records, in rank order, the first
\* size ones are returned as hits
StoreSearch(matching, size) == SubSeq(matching, 1, Min2(size, Len(matching)))

\* a search call that leaves the page size out, so that the store's own
\* default applies (mutant of SearchSize)
SearchSizeOmitted(kk) == DefaultK

\* size=self.k
SearchSize(kk) == kk

\* what client.search does for a retriever of page size kk, when outcome
\* carries the matching records of the index or the exception
Respond(outcome, kk) ==
  [outcome EXCEPT !.hits = StoreSearch(@, SearchSize(kk))]

(***************************************************************************)
(* retrieve_documents: the context of the prompt.                           *)
(***************************************************************************)
MsgNoDocuments == "Ne znajdeno vidpovidnyh dokumentiv"
MsgSearchErrorPrefix == "Pomylka pry posuku dokumentiv: "

\* str(e) of the tenacity.RetryError that wraps the last exception
RetryErrorStr(exc) == "RetryError[" \o exc \o "]"

\* a block that leaves the invoice value out (mutant of ContextPart)
ContextPartNoValue(doc) ==
  LET metadata == doc.metadata
  IN  "Deklaracia #" \o metadata.declaration_number \o "\n"
      \o "Data oformlenna: " \o metadata.processing_date \o "\n"
      \o "Kod tovaru: " \o metadata.product_code \o "\n"
      \o "Opys: " \o doc.page_content \o "\n"
      \o "Vaha netto: " \o IntToStr(metadata.net_weight) \o " kh\n"
      \o "Kil'kist': " \o IntToStr(metadata.quantity) \o " " \o metadata.unit \o "\n"
      \o "Kraina pohodzenna: " \o metadata.origin_country \o "\n"
      \o "Torhova marka: " \o metadata.trade_mark \o "\n"
      \o "Mytnyj orhan: " \o metadata.customs_office \o "\n"
      \o "---\n"

\* a block that holds the description alone (mutant of ContextPart)
ContextPartContentOnly(doc) == doc.page_content

ContextPart(doc) ==
  LET metadata == doc.metadata
  IN  "Deklaracia #" \o metadata.declaration_number \o "\n"
      \o "Data oformlenna: " \o metadata.processing_date \o "\n"
      \o "Kod tovaru: " \o metadata.product_code \o "\n"
      \o "Opys: " \o doc.page_content \o "\n"
      \o "Vaha netto: " \o IntToStr(metadata.net_weight) \o " kh\n"
      \o "Kil'kist': " \o IntToStr(metadata.quantity) \o " " \o metadata.unit \o "\n"
      \o "Vartist': " \o IntToStr(metadata.invoice_value) \o " USD\n"
      \o "Kraina pohodzenna: " \o metadata.origin_country \o "\n"
      \o "Torhova marka: " \o metadata.trade_mark \o "\n"
      \o "Mytnyj orhan: " \o metadata.customs_office \o "\n"
      \o "---\n"

BuildContext(docs) == Join([i \in 1..Len(docs) |-> ContextPart(docs[i])])

(***************************************************************************)
(* CustomsAnalyzer.analyze_documents: the replies of llm.invoke.            *)
(***************************************************************************)
MsgInsufficient == "Nedostatn'o danyh dla analizu"
MsgUnexpectedFormat == "Neocikuvanyj format vidpovidi vid modeli"

\* an analyzer with a lower threshold (mutant of MinContextLen)
MinContextLenLow == 10 - 5

\* len(state.context) < 10
MinContextLen == 10

\* what one llm.invoke call can do: return a plain str, a message object
\* with a content attribute, a value of another type, or raise
Replies ==
  { [shape |-> "str", content |-> "Answer"],
    [shape |-> "HumanMessage", content |-> "Answer"],
    [shape |-> "AIMessage", content |-> "Answer"],
    [shape |-> "AIMessage", content |-> ""],
    [shape |-> "int", content |-> "42"],
    [shape |-> "raise", content |-> "ReadTimeout"] }

\* an analyzer that takes every returned value for a message (mutant of
\* HasContentAttr)
HasContentAttrAny(reply) == reply.shape # "raise"

\* isinstance(response, HumanMessage) or hasattr(response, "content")
HasContentAttr(reply) == reply.shape \in {"HumanMessage", "AIMessage"}

\* an analyze stage without its entry guard (mutant of ErrorGuard)
ErrorGuardOff(err) == FALSE

\* if state.error: return state
ErrorGuard(err) == Truthy(err)

\* CustomsState has update_error and update_response, and no set_error
CustomsStateMethods == {"update_error", "update_response"}

\* the content of the HumanMessage sent to the model
UserPrompt(ctx, q) ==
  "Proanalizujte nastupni mytni deklaracii ta nadajte detal'nu vidpovid':\n"
  \o "\n"
  \o "Kontekst dokumentiv:\n"
  \o ctx \o "\n"
  \o "\n"
  \o "Zapytanna korystuvaca:\n"
  \o q \o "\n"
  \o "\n"
  \o "Vkazit' u vidpovidi:\n"
  \o "- Tocni daty ta nomery deklaracij\n"
  \o "- Konkretni sumy ta vartist' z dokumentiv\n"
  \o "- Faktycni kody UKTZED ta ih opys\n"
  \o "- Zastosovani stavky myta ta podatkiv\n"
  \o "- Vahu ta insi fizycni harakterystyky tovaru\n"

(***************************************************************************)
(* create_customs_graph: the nodes and the edges of the workflow.           *)
(***************************************************************************)
\* workflow.set_entry_point("retrieve")
EntryPoint == "retrieve"

\* a graph whose analyze node leads back to retrieve (mutant of Edge)
EdgeBackToRetrieve(node) == IF node = "retrieve" THEN "analyze" ELSE "retrieve"

\* add_edge("retrieve", "analyze"); add_edge("analyze", END)
Edge(node) == IF node = "retrieve" THEN "analyze" ELSE "END"

\* where main is once the node has returned: in the next node, or, at END,
\* back from workflow.invoke
AfterNode(node) == IF Edge(node) = "END" THEN "report" ELSE Edge(node)

(***************************************************************************)
(* CustomsState.validate_question                                           *)
(***************************************************************************)
\* [raised |-> TRUE] for the ValueError, else the stripped value
validate_question(v) ==
  IF Strip(v) = "" THEN [raised |-> TRUE, value |-> v]
  ELSE [raised |-> FALSE, value |-> Strip(v)]

(***************************************************************************)
(* main: what the user types and what is printed.                           *)
(***************************************************************************)
Lines ==
  { "", " ", " \t ", "exit", " EXIT ", "Exit", "tea", " tea ", "engine part price" }

MsgIndexNotFound == "Pomylka: Index customs_declarations not found"
MsgEmptyQuestion == "Zapyt ne moze buty poroznim"
MsgNoAnswer == "Ne vdalosa otrymaty vidpovid'"
MsgInterrupted == "\nPerervano korystuvacem"
MsgErrorPrefix == "Pomylka: "
MsgResponsePrefix == "Vidpovid':\n"
MsgExceptionPrefix == "Vynykla pomylka: "

InitOutcomes == {"ok", "index_missing", "unreachable"}

(***************************************************************************)
(* State.                                                                   *)
(***************************************************************************)
VARIABLES
  pc,          \* where main is: init, prompt, retrieve, analyze, report, exited
  exitCode,    \* exit code of the process, None while it runs
  startup,     \* what the start-up of main met, "" before it
  k,           \* OpenSearchRetriever.k, 0 while there is no retriever
  line,        \* the line input() returned in the current iteration
  question,    \* CustomsState.question
  context,     \* CustomsState.context
  documents,   \* CustomsState.documents
  response,    \* CustomsState.response
  error,       \* CustomsState.error
  prevDirty,   \* the state of the question before this one held results
  attempt,     \* tenacity's attempt_number in get_relevant_documents
  searchLog,   \* per client.search call of this iteration: "ok" or the exception
  lastKind,    \* what the last client.search call did: "hits" or "raise"
  lastTotal,   \* the number of matching records the last response reports
  lastHits,    \* the hits of the last search response
  waits,       \* the sleeps between the attempts of this iteration
  stages,      \* the nodes of the graph entered in this iteration, in order
  llmCalls,    \* number of llm.invoke calls of this iteration
  llmReply,    \* what the llm.invoke call of this iteration did
  llmPrompt,   \* the user message of the llm.invoke call of this iteration
  raised,      \* the exception that left workflow.invoke, "" if none
  out,         \* what this iteration printed
  \* scripts/select_input_files.py (the ingestion script)
  ipc,         \* where its main is: idle, list, input, parse, connect, setup,
               \* loop, refresh, returned
  files,       \* main's files: the sorted paths list_input_files returned
  selection,   \* get_user_selection's selection, None outside the function
  selected,    \* main's selected: the set get_user_selection returned
  store,       \* the index customs_declarations of the document store
  todo,        \* the members of selected the for loop has yet to visit
  input_file,  \* main's input_file, None before the first iteration
  results,     \* per process_file call, in order: the file and how it ended
  critical,    \* the failure main's except clause caught, "" if none
  printed      \* what the ingestion script printed

vars ==
  << pc, exitCode, startup, k, line, question, context, documents, response,
     error, prevDirty, attempt, searchLog, lastKind, lastTotal, lastHits, waits,
     stages,
     llmCalls, llmReply, llmPrompt, raised, out,
     ipc, files, selection, selected, store, todo, input_file, results,
     critical, printed >>

\* the variables of query_customs.py and those of select_input_files.py
queryVars ==
  << pc, exitCode, startup, k, line, question, context, documents, response,
     error, prevDirty, attempt, searchLog, lastKind, lastTotal, lastHits, waits,
     stages, llmCalls, llmReply, llmPrompt, raised, out >>
ingestVars ==
  << ipc, files, selection, selected, store, todo, input_file, results,
     critical, printed >>

\* the ingestion script is not running
IngestIdle ==
  /\ ipc = "idle"
  /\ files = <<>>
  /\ selection = None
  /\ selected = {}
  /\ store = [exists |-> FALSE, mapping |-> "", docs |-> {}, created |-> 0]
  /\ todo = {}
  /\ input_file = None
  /\ results = <<>>
  /\ critical = ""
  /\ printed = <<>>

stateVars == << question, context, documents, response, error >>
runVars ==
  << attempt, searchLog, lastKind, lastTotal, lastHits, waits, stages, llmCalls,
     llmReply, llmPrompt, raised >>

searchCalls == Len(searchLog)

\* a state object shared by the questions of the session (mutant of
\* FreshState)
FreshStateReused(q) ==
  [question |-> q, context |-> context, documents |-> documents,
   response |-> response, error |-> error]

\* CustomsState(question=q): the defaults of the other fields
FreshState(q) ==
  [question |-> q, context |-> None, documents |-> <<>>,
   response |-> None, error |-> None]

\* a start-up failure that ends the process as a success (mutant of
\* ExitCodeInitFailure)
ExitCodeInitFailureZero == 1 - 1

\* sys.exit(1)
ExitCodeInitFailure == 1

\* the stages once the node is entered; the attempts of one retrieve stage
\* are one entry
EnterStage(node) ==
  IF Len(stages) > 0 /\ stages[Len(stages)] = node
  THEN stages ELSE Append(stages, node)

Init ==
  /\ pc = "init"
  /\ exitCode = None
  /\ startup = ""
  /\ k = 0
  /\ line = None
  /\ question = ""
  /\ context = None
  /\ documents = <<>>
  /\ response = None
  /\ error = None
  /\ prevDirty = FALSE
  /\ attempt = 0
  /\ searchLog = <<>>
  /\ lastKind = ""
  /\ lastTotal = 0
  /\ lastHits = <<>>
  /\ waits = <<>>
  /\ stages = <<>>
  /\ llmCalls = 0
  /\ llmReply = None
  /\ llmPrompt = None
  /\ raised = ""
  /\ out = <<>>
  /\ IngestIdle

(***************************************************************************)
(* main, start-up: the client, the retriever (index check), the model and   *)
(* the graph are built; a failure ends the process with exit code 1.        *)
(***************************************************************************)
Initialize(outcome) ==
  /\ UNCHANGED ingestVars
  /\ pc = "init"
  /\ startup' = outcome
  /\ IF outcome = "ok"
     THEN /\ pc' = "prompt"
          /\ k' = DefaultK
          /\ UNCHANGED << exitCode, out >>
     ELSE /\ pc' = "exited"
          /\ exitCode' = Some(ExitCodeInitFailure)
          /\ out' = IF outcome = "index_missing"
                    THEN Append(out, MsgIndexNotFound) ELSE out
          /\ UNCHANGED k
  /\ UNCHANGED << line, stateVars, prevDirty, runVars >>

(***************************************************************************)
(* main, one iteration up to workflow.invoke: read a line, strip it, leave  *)
(* on "exit", refuse an empty question, else construct the CustomsState.    *)
(***************************************************************************)
ReadLine(l) ==
  /\ UNCHANGED ingestVars
  /\ pc = "prompt"
  /\ line' = Some(l)
  /\ attempt' = 0
  /\ searchLog' = <<>>
  /\ lastKind' = ""
  /\ lastTotal' = 0
  /\ lastHits' = <<>>
  /\ waits' = <<>>
  /\ stages' = <<>>
  /\ llmCalls' = 0
  /\ llmReply' = None
  /\ llmPrompt' = None
  /\ raised' = ""
  /\ UNCHANGED << startup, k >>
  /\ LET q == Strip(l)
         v == validate_question(q)
     IN  IF Lower(q) = "exit"
         THEN /\ pc' = "exited"
              /\ exitCode' = Some(0)
              /\ out' = <<>>
              /\ UNCHANGED << stateVars, prevDirty >>
         ELSE IF q = ""
         THEN /\ pc' = "prompt"
              /\ out' = << MsgEmptyQuestion >>
              /\ UNCHANGED << exitCode, stateVars, prevDirty >>
         ELSE IF v.raised
         THEN /\ pc' = "prompt"
              /\ out' = << MsgExceptionPrefix \o "Question cannot be empty" >>
              /\ UNCHANGED << exitCode, stateVars, prevDirty >>
         ELSE /\ pc' = EntryPoint
              /\ out' = <<>>
              /\ question' = FreshState(v.value).question
              /\ context' = FreshState(v.value).context
              /\ documents' = FreshState(v.value).documents
              /\ response' = FreshState(v.value).response
              /\ error' = FreshState(v.value).error
              /\ prevDirty' = (\/ documents # <<>>
                               \/ IsSet(context)
                               \/ IsSet(response)
                               \/ IsSet(error))
              /\ UNCHANGED exitCode

(***************************************************************************)
(* The retrieve node.  One step is one execution of the body of             *)
(* get_relevant_documents under the retry decorator; the step that ends     *)
(* the retrying also runs the rest of retrieve_documents.                   *)
(***************************************************************************)
SearchReturns(outcome) ==
  /\ UNCHANGED ingestVars
  /\ pc = "retrieve"
  /\ LET r == get_relevant_documents(Respond(outcome, k))
     IN  /\ ~r.raised
         /\ documents' = r.docs
         /\ IF Len(r.docs) = 0
            THEN /\ error' = Some(MsgNoDocuments)
                 /\ context' = context
            ELSE /\ context' = Some(BuildContext(r.docs))
                 /\ error' = error
  /\ attempt' = attempt + 1
  /\ searchLog' = Append(searchLog, "ok")
  /\ lastKind' = outcome.kind
  /\ lastTotal' = Len(outcome.hits)
  /\ lastHits' = Respond(outcome, k).hits
  /\ stages' = EnterStage("retrieve")
  /\ pc' = AfterNode("retrieve")
  /\ UNCHANGED << exitCode, startup, k, line, question, response, prevDirty,
                  waits, llmCalls, llmReply, llmPrompt, raised, out >>

SearchRaises(outcome) ==
  /\ UNCHANGED ingestVars
  /\ pc = "retrieve"
  /\ LET r == get_relevant_documents(Respond(outcome, k))
         n == attempt + 1
     IN  /\ r.raised
         /\ attempt' = n
         /\ searchLog' = Append(searchLog, r.exc)
         /\ IF RetryOn(r.exc) /\ n < StopAfterAttempt
            THEN /\ waits' = Append(waits, WaitExponential(n))
                 /\ pc' = "retrieve"
                 /\ error' = error
            ELSE /\ waits' = waits
                 /\ pc' = AfterNode("retrieve")
                 /\ error' = Some(MsgSearchErrorPrefix \o
                                  (IF RetryOn(r.exc) THEN RetryErrorStr(r.exc)
                                   ELSE r.exc))
  /\ lastKind' = outcome.kind
  /\ lastTotal' = Len(outcome.hits)
  /\ lastHits' = Respond(outcome, k).hits
  /\ stages' = EnterStage("retrieve")
  /\ UNCHANGED << exitCode, startup, k, line, question, context, documents,
                  response, prevDirty, llmCalls, llmReply, llmPrompt, raised,
                  out >>

(***************************************************************************)
(* The analyze node: CustomsAnalyzer.analyze_documents.                     *)
(***************************************************************************)
Analyze(reply) ==
  /\ UNCHANGED ingestVars
  /\ pc = "analyze"
  /\ pc' = AfterNode("analyze")
  /\ stages' = Append(stages, "analyze")
  /\ IF ErrorGuard(error)
     THEN UNCHANGED << response, error, llmCalls, llmReply, llmPrompt, raised >>
     ELSE IF ~Truthy(context) \/ Len(context[1]) < MinContextLen
     THEN /\ error' = Some(MsgInsufficient)
          /\ UNCHANGED << response, llmCalls, llmReply, llmPrompt, raised >>
     ELSE /\ llmCalls' = llmCalls + 1
          /\ llmReply' = Some(reply)
          /\ llmPrompt' = Some(UserPrompt(context[1], question))
          /\ IF reply.shape = "raise"
             THEN IF "set_error" \in CustomsStateMethods
                  THEN /\ error' = Some(reply.content)
                       /\ UNCHANGED << response, raised >>
                  ELSE /\ raised' = "AttributeError: set_error"
                       /\ UNCHANGED << response, error >>
             ELSE IF HasContentAttr(reply)
             THEN /\ response' = Some(reply.content)
                  /\ UNCHANGED << error, raised >>
             ELSE /\ error' = Some(MsgUnexpectedFormat)
                  /\ UNCHANGED << response, raised >>
  /\ UNCHANGED << exitCode, startup, k, line, question, context, documents,
                  prevDirty, attempt, searchLog, lastKind, lastTotal, lastHits,
                  waits, out >>

(***************************************************************************)
(* main, after workflow.invoke: print the error, the answer, or the         *)
(* exception that left the workflow, and go back to the prompt.             *)
(***************************************************************************)
ReportMessage ==
  IF raised # "" THEN MsgExceptionPrefix \o raised
  ELSE IF Truthy(error) THEN MsgErrorPrefix \o error[1]
  ELSE IF Truthy(response) THEN MsgResponsePrefix \o response[1]
  ELSE MsgNoAnswer

\* a loop that only logs an exception of the workflow (mutant of
\* ReportPrints)
ReportPrintsLogOnly == IF raised # "" THEN <<>> ELSE << ReportMessage >>

\* what the iteration prints once workflow.invoke is over
ReportPrints == << ReportMessage >>

Report ==
  /\ UNCHANGED ingestVars
  /\ pc = "report"
  /\ pc' = "prompt"
  /\ out' = out \o ReportPrints
  /\ UNCHANGED << exitCode, startup, k, line, stateVars, prevDirty, runVars >>

(***************************************************************************)
(* main, KeyboardInterrupt in input() or in workflow.invoke: the loop is    *)
(* left and the process ends normally.                                      *)
(***************************************************************************)
Interrupt ==
  /\ UNCHANGED ingestVars
  /\ pc \in {"prompt", "retrieve", "analyze"}
  /\ pc' = "exited"
  /\ exitCode' = Some(0)
  /\ out' = Append(out, MsgInterrupted)
  /\ UNCHANGED << startup, k, line, stateVars, prevDirty, runVars >>

Next ==
  \/ \E outcome \in InitOutcomes : Initialize(outcome)
  \/ \E l \in Lines : ReadLine(l)
  \/ \E outcome \in StoreOutcomes : SearchReturns(outcome)
  \/ \E outcome \in StoreOutcomes : SearchRaises(outcome)
  \/ \E reply \in Replies : Analyze(reply)
  \/ Report
  \/ Interrupt

Spec == Init /\ [][Next]_vars

(***************************************************************************)
(* Properties.                                                              *)
(***************************************************************************)
Last(q) == q[Len(q)]

\* workflow.invoke has ended, by returning or by raising, and main has not
\* yet printed the outcome
RunCompleted == pc = "report"

\* the search of this iteration succeeded and carried no hit
ZeroHits ==
  /\ searchLog # <<>>
  /\ Last(searchLog) = "ok"
  /\ Len(lastHits) = 0

\* every search attempt of this iteration failed
AllAttemptsFailed ==
  /\ searchLog # <<>>
  /\ Last(searchLog) # "ok"

IsBlank(s) == \A i \in 1..Len(s) : IsSpace(Ch(s, i))

\* C1: when a workflow run for a non-empty question completes, by whatever
\* path, exactly one of state.response and state.error is set.
C1_ExactlyOneOfResponseError ==
  RunCompleted => (IsSet(response) # IsSet(error))

\* C2: no stage-level failure (search failing after the retries, the model
\* call raising, an unrecognised reply) lets an exception leave
\* workflow.invoke: the run ends with the failure in state.error.
C2_NoExceptionLeavesWorkflow ==
  (RunCompleted /\ (AllAttemptsFailed \/ (IsSet(llmReply) /\ ~HasContentAttr(llmReply[1]))))
    => (raised = "" /\ IsSet(error))

\* C3: a run whose search returned zero hits completes with state.response
\* set (the no-matching-records message), state.error unset, and no call of
\* the language model.
C3_ZeroHitsAnswered ==
  (RunCompleted /\ ZeroHits) => (IsSet(response) /\ IsNone(error) /\ llmCalls = 0)

\* C4: when the model replies with a plain string or with an object that
\* has a content string, state.response is that text and state.error is
\* unset.
C4_ReplyTextBecomesResponse ==
  (RunCompleted /\ IsSet(llmReply)
     /\ llmReply[1].shape \in {"str", "HumanMessage", "AIMessage"})
    => (response = Some(llmReply[1].content) /\ IsNone(error))

\* C5: a RequestError of the store is not retried: it is the only search
\* call of the run and the retrieve stage ends with it; only connection
\* errors are followed by a further attempt.
C5_RequestErrorNotRetried ==
  /\ (searchLog # <<>> /\ searchLog[1] = "RequestError")
       => (searchCalls = 1 /\ pc # "retrieve")
  /\ \A i \in 1..(searchCalls - 1) : searchLog[i] = "ConnectionError"

\* C6: the retriever makes at most 3 search attempts; when two attempts
\* fail and the third succeeds the documents are those of the third
\* response; when every attempt fails it has made exactly 3 attempts and
\* raises (retrieve_documents records the search error).
C6_RetryBound ==
  /\ searchCalls <= 3
  /\ attempt = searchCalls
  /\ (pc = "retrieve") => searchCalls < 3
  /\ (pc \in {"analyze", "report"} /\ searchCalls = 3 /\ searchLog[3] = "ok")
       => documents = [i \in 1..Len(lastHits) |-> Document(lastHits[i])]
  /\ (pc \in {"analyze", "report"} /\ AllAttemptsFailed)
       => /\ searchCalls = 3
          /\ documents = <<>>
          /\ IsSet(error)
          /\ SubSeq(error[1], 1, Len(MsgSearchErrorPrefix)) = MsgSearchErrorPrefix

C6_Witness ==
  /\ pc = "analyze"
  /\ searchCalls = 3
  /\ searchLog[1] # "ok" /\ searchLog[2] # "ok" /\ searchLog[3] = "ok"
  /\ Len(documents) = 2
  /\ waits = << 4, 4 >>

\* C7: once state.error is set in a run, no later step of the run changes
\* it: the error at completion is the first error recorded.
C7_ErrorNeverOverwritten ==
  [][(pc \in {"retrieve", "analyze", "report"} /\ IsSet(error)) => error' = error]_vars

C7_Witness ==
  /\ RunCompleted
  /\ ZeroHits
  /\ error = Some(MsgNoDocuments)

\* C8: once the retrieve stage has set state.error, the analyze stage does
\* nothing: the state is left as it is, the language model is not called and
\* state.response stays unset.
C8_ShortCircuit ==
  [][(pc = "analyze" /\ IsSet(error))
       => (/\ llmCalls' = 0
           /\ IsNone(llmReply')
           /\ IsNone(response')
           /\ error' = error
           /\ context' = context
           /\ documents' = documents)]_vars

C8_Witness ==
  /\ RunCompleted
  /\ AllAttemptsFailed
  /\ IsSet(error)
  /\ IsNone(response)
  /\ llmCalls = 0

\* C9: an empty or whitespace-only line ends in the validation message,
\* with no search call and no language-model call.
C9_EmptyQuestionRejected ==
  (IsSet(line) /\ IsBlank(line[1]))
    => /\ pc \in {"prompt", "exited"}
       /\ searchCalls = 0
       /\ llmCalls = 0
       /\ out # <<>>
       /\ out[1] = MsgEmptyQuestion

C9_Witness ==
  /\ IsSet(line)
  /\ line[1] = " \t "
  /\ pc = "prompt"
  /\ out = << MsgEmptyQuestion >>

\* C10: when the model returns a value that is neither text nor an object
\* with a content attribute, the run completes with state.error set and
\* state.response unset.
C10_UnrecognisedReplyIsError ==
  (RunCompleted /\ IsSet(llmReply) /\ llmReply[1].shape = "int")
    => (IsSet(error) /\ IsNone(response) /\ raised = "")

C10_Witness ==
  /\ RunCompleted
  /\ IsSet(llmReply)
  /\ llmReply[1].shape = "int"
  /\ error = Some(MsgUnexpectedFormat)

\* C11: in one run the retrieve stage, with all its retry attempts, is over
\* before the analyze stage begins; analyze never comes before retrieve;
\* each stage is entered at most once per question and nothing re-runs the
\* workflow after a failure.
C11_StrictSequencing ==
  /\ stages \in { <<>>, << "retrieve" >>, << "retrieve", "analyze" >> }
  /\ (pc = "retrieve") => stages \in { <<>>, << "retrieve" >> }
  /\ (pc = "analyze")
       => /\ stages = << "retrieve" >>
          /\ searchCalls >= 1
          /\ (Last(searchLog) = "ok" \/ searchCalls = 3)
  /\ (pc = "report") => stages = << "retrieve", "analyze" >>
  /\ (pc = "prompt") => stages \in { <<>>, << "retrieve", "analyze" >> }

C11_Witness ==
  /\ pc = "report"
  /\ stages = << "retrieve", "analyze" >>
  /\ searchCalls = 3
  /\ Last(searchLog) = "ok"
  /\ llmCalls = 1

\* C12: at the retriever zero hits is a result and not a failure: when the
\* search succeeds with zero hits, get_relevant_documents returns the empty
\* sequence, without raising and without a further search call; when every
\* attempt fails it raises, which retrieve_documents records as a search
\* error, different from the record of an empty result.
C12_ZeroHitsIsNotFailure ==
  /\ (searchLog # <<>> /\ lastKind = "hits" /\ Len(lastHits) = 0)
       => /\ Last(searchLog) = "ok"
          /\ pc # "retrieve"
          /\ documents = <<>>
          /\ error = Some(MsgNoDocuments)
  /\ (searchLog # <<>> /\ searchLog[1] = "ok") => searchCalls = 1
  /\ (pc \in {"analyze", "report"} /\ AllAttemptsFailed)
       => /\ IsSet(error)
          /\ error[1] # MsgNoDocuments
          /\ SubSeq(error[1], 1, Len(MsgSearchErrorPrefix)) = MsgSearchErrorPrefix

C12_Witness ==
  /\ pc = "analyze"
  /\ searchLog = << "ok" >>
  /\ lastKind = "hits"
  /\ Len(lastHits) = 0
  /\ documents = <<>>

(***************************************************************************)
(* analyze_documents called on its own, with a state its caller built: the  *)
(* states the retrieve node leaves, and states with a context of any        *)
(* length.                                                                  *)
(***************************************************************************)
AnalyzeQuestions == { "tea", "engine part price" }

AnalyzeContexts ==
  { None, Some(""), Some("short"), Some("123456789"), Some("1234567890") }
  \cup { Some(BuildContext(<< Document(h) >>)) : h \in Hits }

AnalyzeErrors ==
  { None, Some(MsgNoDocuments),
    Some(MsgSearchErrorPrefix \o RetryErrorStr("ConnectionError")) }

InitAnalyze ==
  /\ pc = "analyze"
  /\ exitCode = None
  /\ startup = ""
  /\ k = 0
  /\ line = None
  /\ question \in AnalyzeQuestions
  /\ context \in AnalyzeContexts
  /\ documents = <<>>
  /\ response = None
  /\ error \in AnalyzeErrors
  /\ prevDirty = FALSE
  /\ attempt = 0
  /\ searchLog = <<>>
  /\ lastKind = ""
  /\ lastTotal = 0
  /\ lastHits = <<>>
  /\ waits = <<>>
  /\ stages = <<>>
  /\ llmCalls = 0
  /\ llmReply = None
  /\ llmPrompt = None
  /\ raised = ""
  /\ out = <<>>
  /\ IngestIdle

NextAnalyze == \E reply \in Replies : Analyze(reply)

SpecAnalyze == InitAnalyze /\ [][NextAnalyze]_vars

\* the context is unset, empty or shorter than 10 characters
InsufficientContext(c) == IsNone(c) \/ Len(c[1]) < 10

\* C13, as stated: whenever the analyze stage has been entered with a
\* context that is unset, empty or shorter than 10 characters, the model was
\* not called and the stage ended with state.error the insufficient-context
\* message and state.response unset.
C13_InsufficientContextAlways ==
  (pc = "report" /\ InsufficientContext(context))
    => (llmCalls = 0 /\ error = Some(MsgInsufficient) /\ IsNone(response))

\* C13, amended: when the analyze stage is entered with state.error unset
\* and a context that is unset, empty or shorter than 10 characters, it does
\* not call the model and ends with state.error the insufficient-context
\* message and state.response unset.
C13_InsufficientContext ==
  [][(pc = "analyze" /\ IsNone(error) /\ InsufficientContext(context))
       => (/\ llmCalls' = 0
           /\ IsNone(llmReply')
           /\ error' = Some(MsgInsufficient)
           /\ IsNone(response'))]_vars

C13_Witness ==
  /\ pc = "report"
  /\ context = Some("123456789")
  /\ error = Some(MsgInsufficient)
  /\ IsNone(response)
  /\ llmCalls = 0

\* C14: a start-up that finds the index missing or the store unreachable
\* ends the process with a non-zero exit code before any line is read and
\* before any workflow run; a line is only ever read after a successful
\* start-up; the exit command ends the process with exit code 0.
C14_InitFailureIsFatal ==
  /\ (startup \in {"index_missing", "unreachable"})
       => /\ pc = "exited"
          /\ IsSet(exitCode)
          /\ exitCode[1] # 0
          /\ IsNone(line)
          /\ stages = <<>>
          /\ searchCalls = 0
          /\ llmCalls = 0
  /\ IsSet(line) => startup = "ok"
  /\ (pc = "exited" /\ IsSet(line) /\ Lower(Strip(line[1])) = "exit")
       => exitCode = Some(0)

C14_Witness ==
  /\ startup = "index_missing"
  /\ pc = "exited"
  /\ exitCode = Some(1)
  /\ out = << MsgIndexNotFound >>

\* C15: after a successful start-up every line other than exit gets exactly
\* one printed answer or error message, also when the workflow run raises,
\* and the loop is back at the prompt; the process ends only on the exit
\* command or on an interrupt, with exit code 0, never on a failure of a
\* question.
C15_OneMessagePerLine ==
  /\ (pc \in {"retrieve", "analyze", "report"}) => out = <<>>
  /\ (pc = "prompt" /\ IsSet(line)) => (Len(out) = 1 /\ IsNone(exitCode))
  /\ (pc = "exited" /\ IsSet(line))
       => /\ exitCode = Some(0)
          /\ (Lower(Strip(line[1])) = "exit" \/ Last(out) = MsgInterrupted)

C15_Witness ==
  /\ pc = "prompt"
  /\ raised # ""
  /\ Len(out) = 1
  /\ IsNone(exitCode)

\* C16: every question starts from a newly constructed state (no documents;
\* context, response and error unset), and all that the state of a run holds
\* comes from this run: from its line, its last search response and its
\* model reply, whatever the question before left behind.
C16_FreshStatePerQuestion ==
  /\ (pc = "retrieve")
       => /\ documents = <<>>
          /\ IsNone(context)
          /\ IsNone(response)
          /\ IsNone(error)
  /\ (pc \in {"retrieve", "analyze", "report"}) => question = Strip(line[1])
  /\ (pc \in {"analyze", "report"})
       => /\ documents = (IF Last(searchLog) = "ok"
                          THEN [i \in 1..Len(lastHits) |-> Document(lastHits[i])]
                          ELSE <<>>)
          /\ context = (IF documents # <<>>
                        THEN Some(BuildContext(documents)) ELSE None)
          /\ IsSet(response)
               => (IsSet(llmReply) /\ response[1] = llmReply[1].content)

C16_Witness ==
  /\ prevDirty
  /\ pc = "retrieve"
  /\ attempt = 0
  /\ documents = <<>>
  /\ IsNone(context)
  /\ IsNone(error)

(***************************************************************************)
(* The retrieve node with a retriever of a small page size k, over an index *)
(* that can hold more matching records than k.                              *)
(***************************************************************************)
PagedOutcomes ==
  { [kind |-> "hits", hits |-> h, exc |-> ""] : h \in SeqsUpTo(Hits, MaxK + 1) }
  \cup { [kind |-> "raise", hits |-> <<>>, exc |-> e] : e \in SearchExceptions }

InitPaging ==
  /\ pc = "retrieve"
  /\ exitCode = None
  /\ startup = "ok"
  /\ k \in 1..MaxK
  /\ line \in { Some("tea"), Some("engine part price") }
  /\ question = line[1]
  /\ context = None
  /\ documents = <<>>
  /\ response = None
  /\ error = None
  /\ prevDirty = FALSE
  /\ attempt = 0
  /\ searchLog = <<>>
  /\ lastKind = ""
  /\ lastTotal = 0
  /\ lastHits = <<>>
  /\ waits = <<>>
  /\ stages = <<>>
  /\ llmCalls = 0
  /\ llmReply = None
  /\ llmPrompt = None
  /\ raised = ""
  /\ out = <<>>
  /\ IngestIdle

NextPaging ==
  \/ \E outcome \in PagedOutcomes : SearchReturns(outcome)
  \/ \E outcome \in PagedOutcomes : SearchRaises(outcome)

SpecPaging == InitPaging /\ [][NextPaging]_vars

BlockDelimiter == "---\n"

\* the least position of sub in s, 0 if there is none
IndexOf(s, sub) ==
  IF Contains(s, sub)
  THEN CHOOSE i \in 1..(Len(s) - Len(sub) + 1) :
         /\ SubSeq(s, i, i + Len(sub) - 1) = sub
         /\ \A j \in 1..(i - 1) : SubSeq(s, j, j + Len(sub) - 1) # sub
  ELSE 0

\* the blocks of a context: each ends with the delimiter, and a newline
\* stands between two blocks
RECURSIVE SplitBlocks(_)
SplitBlocks(s) ==
  IF ~Contains(s, BlockDelimiter) THEN <<>>
  ELSE LET e == IndexOf(s, BlockDelimiter) + Len(BlockDelimiter) - 1
           rest == SubSeq(s, e + 1, Len(s))
       IN  << SubSeq(s, 1, e) >>
           \o SplitBlocks(IF Len(rest) > 0 /\ Ch(rest, 1) = "\n"
                          THEN SubSeq(rest, 2, Len(rest)) ELSE rest)

FirstLine(b) == SubSeq(b, 1, IndexOf(b, "\n") - 1)

\* C18: the context of a non-empty document sequence has one block per
\* document, in the order of the hits of the store, each ending with the
\* delimiter, and each block is labelled with its one-based index: the
\* index stands in the first line of the block, and the blocks of one record
\* at two ranks differ.
C18_IndexedBlocksInRankOrder ==
  (pc \in {"analyze", "report"} /\ documents # <<>>)
    => LET blocks == SplitBlocks(context[1])
       IN  /\ Len(blocks) = Len(documents)
           /\ Len(blocks) = Len(lastHits)
           /\ \A i \in 1..Len(blocks) :
                Contains(blocks[i],
                         "Opys: " \o Get(lastHits[i]._source, "product_description", "") \o "\n")
           /\ \A i \in 1..Len(blocks) : Contains(FirstLine(blocks[i]), IntToStr(i))
           /\ \A i, j \in 1..Len(blocks) : i # j => blocks[i] # blocks[j]

\* C19: whenever the store returns at least one hit, the run calls the
\* model exactly once, with a prompt that holds the context, and the
\* context is not empty and holds, in the block of every hit, the
\* declaration number and the invoice value of that hit.
C19_ContextReachesModel ==
  (RunCompleted /\ lastKind = "hits" /\ Len(lastHits) >= 1)
    => /\ llmCalls = 1
       /\ IsSet(llmPrompt)
       /\ IsSet(context)
       /\ context[1] # ""
       /\ Contains(llmPrompt[1], context[1])
       /\ LET blocks == SplitBlocks(context[1])
          IN  /\ Len(blocks) = Len(lastHits)
              /\ \A i \in 1..Len(lastHits) :
                   LET source == lastHits[i]._source
                   IN  /\ ("declaration_number" \in DOMAIN source)
                            => Contains(blocks[i], source.declaration_number)
                       /\ ("invoice_value" \in DOMAIN source)
                            => Contains(blocks[i], IntToStr(source.invoice_value))

C19_Witness ==
  /\ RunCompleted
  /\ Len(lastHits) = 2
  /\ lastHits[1]._source = SourceFull
  /\ llmCalls = 1
  /\ Contains(llmPrompt[1], "Deklaracia #123\n")
  /\ Contains(llmPrompt[1], "Vartist': 500 USD\n")

(***************************************************************************)
(* The metadata keys of a Document and their defaults.                      *)
(***************************************************************************)
MetadataKeys ==
  { "declaration_number", "processing_date", "customs_office", "product_code",
    "net_weight", "gross_weight", "quantity", "unit", "invoice_value",
    "origin_country", "trade_mark" }

\* the keys whose values are numbers
NumericKeys == { "net_weight", "gross_weight", "quantity", "invoice_value" }

\* str() of the value of a key
ValueStr(key, v) == IF key \in NumericKeys THEN IntToStr(v) ELSE v

UnknownSentinel == "N/A"

\* str() of the default source.get gives for a key
DefaultStr(key) ==
  IF key \in NumericKeys THEN "0"
  ELSE IF key = "unit" THEN "st"
  ELSE UnknownSentinel

\* C20, as stated: every Document of a retrieval carries all fixed metadata
\* keys, and a key the hit lacks has the unknown sentinel as its value.
C20_MissingKeysAreUnknown ==
  (pc \in {"analyze", "report"} /\ documents # <<>>)
    => \A i \in 1..Len(documents) : \A key \in MetadataKeys :
         /\ key \in DOMAIN documents[i].metadata
         /\ (key \notin DOMAIN lastHits[i]._source)
              => ValueStr(key, documents[i].metadata[key]) = UnknownSentinel

\* C20, amended: every Document of a retrieval carries all fixed metadata
\* keys; a key of the hit keeps its value, and a key the hit lacks has the
\* fixed default of that key: the unknown sentinel for declaration number,
\* processing date, customs office, product code, origin country and trade
\* mark, 0 for the weights, the quantity and the invoice value, and the
\* piece unit for unit.
C20_MissingKeysHaveDefaults ==
  (pc \in {"analyze", "report"} /\ documents # <<>>)
    => \A i \in 1..Len(documents) : \A key \in MetadataKeys :
         /\ key \in DOMAIN documents[i].metadata
         /\ (key \in DOMAIN lastHits[i]._source)
              => documents[i].metadata[key] = lastHits[i]._source[key]
         /\ (key \notin DOMAIN lastHits[i]._source)
              => ValueStr(key, documents[i].metadata[key]) = DefaultStr(key)

C20_Witness ==
  /\ pc = "analyze"
  /\ Len(documents) >= 1
  /\ lastHits[1]._source = SourceSparse
  /\ documents[1].metadata.trade_mark = "N/A"
  /\ documents[1].metadata.gross_weight = 0
  /\ documents[1].metadata.unit = "st"
  /\ documents[1].metadata.declaration_number = "77"

(***************************************************************************)
(* The main program under the scheduling the code has: client.search and   *)
(* llm.invoke are synchronous calls that return or raise, and main goes on  *)
(* to print once workflow.invoke is over.  Nothing makes the user type a    *)
(* line, so ReadLine and Interrupt carry no fairness.                       *)
(***************************************************************************)
CallsReturn ==
  /\ WF_vars(\E outcome \in StoreOutcomes :
               SearchReturns(outcome) \/ SearchRaises(outcome))
  /\ WF_vars(\E reply \in Replies : Analyze(reply))
  /\ WF_vars(Report)

SpecLive == Init /\ [][Next]_vars /\ CallsReturn

\* C21: every workflow run for a non-empty question eventually reaches one
\* of the two terminal states, Done (response set) or Failed (error set):
\* once the retrieve stage is entered, workflow.invoke eventually returns a
\* state with response or error set (or the user interrupts the process);
\* no run ends in another way or retries forever.
C21_RunReachesDoneOrFailed ==
  (pc = "retrieve")
    ~> \/ pc = "exited"
       \/ /\ RunCompleted
          /\ raised = ""
          /\ (IsSet(response) \/ IsSet(error))

\* C22: the wait before attempt n+1 is strictly greater than the wait
\* before attempt n, and no wait exceeds the cap of 10 seconds, for every
\* attempt within the 3-attempt bound.
C22_BackoffStrictlyIncreasing ==
  /\ \A i \in 1..Len(waits) : waits[i] <= 10
  /\ \A i \in 1..(Len(waits) - 1) : waits[i + 1] > waits[i]

\* C23: in a workflow run, whenever the analyze stage is entered with
\* state.error unset, state.context is set and is at least 10 characters
\* long; the insufficient-context error is never produced inside a
\* workflow run.
C23_ContextSufficientInWorkflow ==
  /\ (pc = "analyze" /\ IsNone(error))
       => /\ IsSet(context)
          /\ Len(context[1]) >= 10
  /\ error # Some(MsgInsufficient)

C23_Witness ==
  /\ pc = "report"
  /\ stages = << "retrieve", "analyze" >>
  /\ IsSet(context)
  /\ Len(documents) = 1
  /\ documents[1].page_content = "Tea"
  /\ llmCalls = 1
  /\ IsNone(error)

(***************************************************************************)
(* Model of scripts/select_input_files.py: the ingestion script.  The      *)
(* Russian literals of the source are transliterated like the Ukrainian    *)
(* ones.                                                                    *)
(***************************************************************************)
\* the characters of the lines typed at the selection prompt
SelectionChars == { " ", "0", "1", "2", "3", "x", "-" }

RECURSIVE StrsUpTo(_)
StrsUpTo(n) ==
  IF n = 0 THEN { "" }
  ELSE LET S == StrsUpTo(n - 1)
       IN  S \cup { s \o c : s \in S, c \in SelectionChars }

\* what input() can return
SelectionLines == StrsUpTo(MaxLineLen)

\* the end of the first word of t: the position of its first whitespace
\* character, Len(t) + 1 if it has none
WordEnd(t) ==
  CHOOSE i \in 1..(Len(t) + 1) :
    /\ (i = Len(t) + 1 \/ IsSpace(Ch(t, i)))
    /\ \A j \in 1..(i - 1) : ~IsSpace(Ch(t, j))

\* str.split(): the words between runs of whitespace
RECURSIVE Split(_)
Split(s) ==
  LET t == LStrip(s)
  IN  IF t = "" THEN <<>>
      ELSE << SubSeq(t, 1, WordEnd(t) - 1) >>
             \o Split(SubSeq(t, WordEnd(t), Len(t)))

IsDigitCh(c) == \E d \in 0..9 : Digit(d) = c
DigitVal(c) == CHOOSE d \in 0..9 : Digit(d) = c

RECURSIVE DecValue(_)
DecValue(s) ==
  IF Len(s) = 0 THEN 0
  ELSE DecValue(SubSeq(s, 1, Len(s) - 1)) * 10 + DigitVal(Ch(s, Len(s)))

\* int(tok) of a word without whitespace: an optional sign and one or more
\* decimal digits; None stands for ValueError
ParseInt(tok) ==
  LET signed == Len(tok) > 0 /\ Ch(tok, 1) \in { "-", "+" }
      digits == IF signed THEN SubSeq(tok, 2, Len(tok)) ELSE tok
  IN  IF digits = "" \/ \E i \in 1..Len(digits) : ~IsDigitCh(Ch(digits, i))
      THEN None
      ELSE IF signed /\ Ch(tok, 1) = "-" THEN Some(0 - DecValue(digits))
      ELSE Some(DecValue(digits))

\* the integers a word of a typed line can stand for
TypedNumbers ==
  { ParseInt(w)[1] : w \in { v \in SelectionLines : IsSet(ParseInt(v)) } }

MsgAvailableFiles == "\nDostupnye fajly:"
MsgSelectPrompt ==
  "\nVyberite nomera fajlov (cerez probel) ili nazmite Enter dla vybora vseh:"
MsgInvalidInput == "Nekorrektnyj vvod. Budut vybrany vse fajly."

\* a range check without its lower bound (mutant of InRange)
InRangeNoLower(num, max_num) == num <= max_num

\* 1 <= num <= max_num
InRange(num, max_num) == 1 <= num /\ num <= max_num

\* set(range(1, max_num + 1))
AllFiles(max_num) == 1..max_num

\* get_user_selection after input().strip() returned selection: the set it
\* returns and whether it reported an invalid input
get_user_selection(max_num, sel) ==
  IF sel = "" THEN [numbers |-> AllFiles(max_num), invalid |-> FALSE]
  ELSE LET words == Split(sel)
           parsed == { ParseInt(words[i]) : i \in DOMAIN words }
           numbers == { n[1] : n \in parsed }
       IN  IF None \in parsed
           THEN [numbers |-> AllFiles(max_num), invalid |-> TRUE]
           ELSE IF ~(\A num \in numbers : InRange(num, max_num))
           THEN [numbers |-> AllFiles(max_num), invalid |-> TRUE]
           ELSE [numbers |-> numbers, invalid |-> FALSE]

\* os.path.basename of the i-th path of sorted(glob(.../input*))
FileName(i) == "input" \o IntToStr(i)

\* f"{idx}. {os.path.basename(file)}" for enumerate(files, 1)
DisplayLines(fs) == [i \in 1..Len(fs) |-> IntToStr(i) \o ". " \o fs[i]]

\* files[i] of Python, i counted from 0, a negative i from the end; None
\* stands for IndexError
PyIndex(fs, i) ==
  IF i \in 0..(Len(fs) - 1) THEN Some(fs[i + 1])
  ELSE IF i \in (0 - Len(fs))..(0 - 1) THEN Some(fs[Len(fs) + i + 1])
  ELSE None

(***************************************************************************)
(* The index of the document store as the ingestion script meets it.       *)
(***************************************************************************)
IndexName == "customs_declarations"

\* mapping_config['mappings'] of opensearch/mapping.json, and a mapping an
\* index can carry that is not equal to it
ConfiguredMapping == "mapping.json"
OtherMapping == "other"

\* no index; created counts the indices.create calls that made the index
\* since the script started
AbsentIndex ==
  [exists |-> FALSE, mapping |-> "", docs |-> {}, created |-> 0]

\* the index before the script runs: absent, or left by an earlier run
\* with some mapping and with or without documents
IndexStates ==
  { AbsentIndex }
    \cup { [exists |-> TRUE, mapping |-> m, docs |-> d, created |-> 0] :
             m \in { ConfiguredMapping, OtherMapping },
             d \in { {}, { "old" } } }

\* indices.create(index=index_name, body=mapping_config)
CreatedIndex(st) ==
  [exists |-> TRUE, mapping |-> ConfiguredMapping, docs |-> {},
   created |-> st.created + 1]

\* a comparison that always reports a difference (mutant of MappingDiffers)
MappingDiffersAlways(current, config) == current = current

\* current_mapping[index_name]['mappings'] != mapping_config['mappings']
MappingDiffers(current, config) == current # config

\* the step of setup_index that raises, "none" if none does
SetupFaults ==
  { "none", "mapping_file", "exists", "get_mapping", "delete", "create" }

\* setup_index on the index st when the step fault raises (a step that is
\* not reached cannot raise): whether it raised, and the index it leaves
setup_index(st, fault) ==
  IF fault \in { "mapping_file", "exists" }
  THEN [raised |-> TRUE, store |-> st]
  ELSE IF st.exists
  THEN IF fault = "get_mapping" THEN [raised |-> TRUE, store |-> st]
       ELSE IF MappingDiffers(st.mapping, ConfiguredMapping)
       THEN IF fault = "delete" THEN [raised |-> TRUE, store |-> st]
            ELSE IF fault = "create"
            THEN [raised |-> TRUE,
                  store |-> [AbsentIndex EXCEPT !.created = st.created]]
            ELSE [raised |-> FALSE, store |-> CreatedIndex(st)]
       ELSE [raised |-> FALSE, store |-> st]
  ELSE IF fault = "create" THEN [raised |-> TRUE, store |-> st]
  ELSE [raised |-> FALSE, store |-> CreatedIndex(st)]

\* the step of process_file that raises, "none" if none does: os.makedirs,
\* pd.read_csv, the renaming and conversion of the columns, to_csv,
\* index_documents
ProcessFaults == { "none", "makedirs", "read", "transform", "save", "index" }

\* a try block that ends before index_documents (mutant of TryCovers)
TryCoversUpToSave == { "read", "transform", "save" }

\* the steps of process_file inside its try ... except Exception
TryCovers == { "read", "transform", "save", "index" }

\* process_file(input_file, client, index_name) when the step fault raises:
\* whether the exception leaves process_file, and the index afterwards
process_file(name, st, fault) ==
  IF fault = "none"
  THEN [raised |-> FALSE, store |-> [st EXCEPT !.docs = @ \cup { name }]]
  ELSE IF fault \in TryCovers
  THEN [raised |-> FALSE, store |-> st]
  ELSE [raised |-> TRUE, store |-> st]

CallOutcomes == { "ok", "raise" }

InitIngest ==
  /\ pc = "init"
  /\ exitCode = None
  /\ startup = ""
  /\ k = 0
  /\ line = None
  /\ question = ""
  /\ context = None
  /\ documents = <<>>
  /\ response = None
  /\ error = None
  /\ prevDirty = FALSE
  /\ attempt = 0
  /\ searchLog = <<>>
  /\ lastKind = ""
  /\ lastTotal = 0
  /\ lastHits = <<>>
  /\ waits = <<>>
  /\ stages = <<>>
  /\ llmCalls = 0
  /\ llmReply = None
  /\ llmPrompt = None
  /\ raised = ""
  /\ out = <<>>
  /\ ipc = "list"
  /\ files = <<>>
  /\ selection = None
  /\ selected = {}
  /\ store \in IndexStates
  /\ todo = {}
  /\ input_file = None
  /\ results = <<>>
  /\ critical = ""
  /\ printed = <<>>

(***************************************************************************)
(* main: list_input_files and display_files.                                *)
(***************************************************************************)
ListInputFiles(n) ==
  /\ ipc = "list"
  /\ files' = [i \in 1..n |-> FileName(i)]
  /\ IF n = 0
     THEN /\ ipc' = "returned"
          /\ printed' = printed
     ELSE /\ ipc' = "input"
          /\ printed' = printed \o << MsgAvailableFiles >> \o DisplayLines(files')
  /\ UNCHANGED << selection, selected, store, todo, input_file, results,
                  critical >>
  /\ UNCHANGED queryVars

(***************************************************************************)
(* get_user_selection: the prompt and input().strip(), then the parsing.   *)
(***************************************************************************)
ReadSelection(l) ==
  /\ ipc = "input"
  /\ printed' = Append(printed, MsgSelectPrompt)
  /\ selection' = Some(Strip(l))
  /\ ipc' = "parse"
  /\ UNCHANGED << files, selected, store, todo, input_file, results, critical >>
  /\ UNCHANGED queryVars

ParseSelection ==
  /\ ipc = "parse"
  /\ LET r == get_user_selection(Len(files), selection[1])
     IN  /\ selected' = r.numbers
         /\ printed' = IF r.invalid THEN Append(printed, MsgInvalidInput)
                       ELSE printed
  /\ selection' = None
  /\ ipc' = "connect"
  /\ UNCHANGED << files, store, todo, input_file, results, critical >>
  /\ UNCHANGED queryVars

(***************************************************************************)
(* main: init_opensearch and setup_index; an exception is main's critical  *)
(* error.                                                                   *)
(***************************************************************************)
InitOpenSearch(outcome) ==
  /\ ipc = "connect"
  /\ IF outcome = "ok"
     THEN ipc' = "setup" /\ critical' = critical
     ELSE ipc' = "returned" /\ critical' = "connect"
  /\ UNCHANGED << files, selection, selected, store, todo, input_file, results,
                  printed >>
  /\ UNCHANGED queryVars

SetupIndex(fault) ==
  /\ ipc = "setup"
  /\ LET r == setup_index(store, fault)
     IN  /\ store' = r.store
         /\ IF r.raised
            THEN ipc' = "returned" /\ critical' = "setup" /\ todo' = todo
            ELSE ipc' = "loop" /\ critical' = critical /\ todo' = selected
  /\ UNCHANGED << files, selection, selected, input_file, results, printed >>
  /\ UNCHANGED queryVars

(***************************************************************************)
(* main, the loop over selected: files[idx-1] and process_file, then the    *)
(* refresh and the statistics of the index.  A set is visited in an order  *)
(* the language does not fix.                                               *)
(***************************************************************************)
ProcessFile(idx, fault) ==
  /\ ipc = "loop"
  /\ idx \in todo
  /\ todo' = todo \ { idx }
  /\ LET f == PyIndex(files, idx - 1)
     IN  IF IsNone(f)
         THEN /\ ipc' = "returned"
              /\ critical' = "IndexError"
              /\ UNCHANGED << input_file, store, results >>
         ELSE LET r == process_file(f[1], store, fault)
              IN  /\ input_file' = f
                  /\ store' = r.store
                  /\ results' = Append(results,
                                  [idx |-> idx, file |-> f[1], fault |-> fault,
                                   raised |-> r.raised])
                  /\ IF r.raised
                     THEN ipc' = "returned" /\ critical' = fault
                     ELSE ipc' = "refresh" /\ critical' = critical
  /\ UNCHANGED << files, selection, selected, printed >>
  /\ UNCHANGED queryVars

RefreshStats(outcome) ==
  /\ ipc = "refresh"
  /\ IF outcome = "ok"
     THEN ipc' = "loop" /\ critical' = critical
     ELSE ipc' = "returned" /\ critical' = "refresh"
  /\ UNCHANGED << files, selection, selected, store, todo, input_file, results,
                  printed >>
  /\ UNCHANGED queryVars

\* after the loop: the final refresh, statistics and get_mapping
Finish(outcome) ==
  /\ ipc = "loop"
  /\ todo = {}
  /\ ipc' = "returned"
  /\ critical' = IF outcome = "ok" THEN critical ELSE "final"
  /\ UNCHANGED << files, selection, selected, store, todo, input_file, results,
                  printed >>
  /\ UNCHANGED queryVars

NextIngest ==
  \/ \E n \in 0..MaxFiles : ListInputFiles(n)
  \/ \E l \in SelectionLines : ReadSelection(l)
  \/ ParseSelection
  \/ \E outcome \in CallOutcomes : InitOpenSearch(outcome)
  \/ \E fault \in SetupFaults : SetupIndex(fault)
  \/ \E idx \in TypedNumbers, fault \in ProcessFaults : ProcessFile(idx, fault)
  \/ \E outcome \in CallOutcomes : RefreshStats(outcome)
  \/ \E outcome \in CallOutcomes : Finish(outcome)

SpecIngest == InitIngest /\ [][NextIngest]_vars

\* the files process_file has been called for
Processed == { results[i].idx : i \in 1..Len(results) }

\* C24: for every max_num >= 1 and every input line, get_user_selection
\* returns a non-empty set of integers all within 1..max_num; an empty line
\* or an invalid one selects all files, any other selection holds only
\* numbers that were typed; so main's lookup files[idx-1] is always within
\* the bounds of the file list and finds the idx-th file.
C24_SelectionWithinBounds ==
  /\ [][ (ipc = "parse")
           => /\ selected' # {}
              /\ selected' \subseteq 1..Len(files)
              /\ (selection[1] = "" \/ Last(printed') = MsgInvalidInput)
                   => selected' = 1..Len(files)
              /\ (selected' # 1..Len(files))
                   => \A n \in selected' : Contains(selection[1], IntToStr(n))
       ]_vars
  /\ [](/\ critical # "IndexError"
        /\ \A i \in 1..Len(results) :
             /\ results[i].idx \in 1..Len(files)
             /\ results[i].file = files[results[i].idx])

C24_Witness ==
  /\ ipc = "returned"
  /\ critical = ""
  /\ Len(files) = 2
  /\ Last(printed) = MsgInvalidInput
  /\ selected = { 1, 2 }
  /\ Processed = { 1, 2 }

\* C25: after setup_index returns normally the index exists with the
\* configured mapping; the existing index is deleted only when its current
\* mapping differs from the configured one; an index whose mapping already
\* matches is left unchanged with its documents intact.
C25_IndexRecreatedOnlyOnDrift ==
  [][ (ipc = "setup")
        => /\ (ipc' = "loop")
                => (store'.exists /\ store'.mapping = ConfiguredMapping)
           /\ (store.exists /\ (~store'.exists \/ store'.created # store.created))
                => store.mapping # ConfiguredMapping
           /\ (store.exists /\ store.mapping = ConfiguredMapping)
                => store' = store
    ]_vars

C25_Witness ==
  /\ ipc = "loop"
  /\ results = <<>>
  /\ store = [exists |-> TRUE, mapping |-> ConfiguredMapping,
              docs |-> { "old" }, created |-> 0]

\* C26: a failure while reading, transforming or indexing one selected
\* file is contained to that file: process_file returns normally, the
\* failure is never main's critical error, and main goes on: when main
\* ends without a critical error every selected file has been processed.
C26_FileFailureContained ==
  /\ critical \notin { "read", "transform", "index" }
  /\ \A i \in 1..Len(results) :
       (results[i].fault \in { "read", "transform", "index" })
         => /\ ~results[i].raised
            /\ (i = Len(results)) => ipc \in { "refresh", "loop", "returned" }
  /\ (ipc = "returned" /\ critical = "" /\ files # <<>>)
       => Processed = selected

C26_Witness ==
  /\ ipc = "returned"
  /\ critical = ""
  /\ selected = { 1, 2 }
  /\ Len(results) = 2
  /\ results[1].fault = "index"
  /\ results[2].fault = "none"
  /\ store.docs = { results[2].file }

====
